---- MODULE Spec2Model ----
(***************************************************************************)
(* Model of src/main.py: a Flet application with three views (home, chat,  *)
(* settings), a JSON document persisted in storage/data/app_data.json and  *)
(* a light/dark theme.  The data file is modelled as a sequence of JSON    *)
(* tokens, written by json.dump and read back by json.load, so that the    *)
(* save/load round trip is computed and not assumed.                       *)
(***************************************************************************)
EXTENDS Integers, Sequences, FiniteSets, TLC

VARIABLES
    pc,                     \* "off" | "running" | "crashed" (main raised)
    file,                   \* DATA_FILE: [exists, content (token sequence)]
    data_store,             \* the dict returned by load_data, then mutated
    theme_mode,             \* page.theme_mode
    current_selected_index, \* current_selected_index.current (-1 is None)
    chat_messages_list,     \* chat_messages_list.controls: ft.Text records
    new_message_field,      \* the TextField: value and colours
    switch,                 \* the "Dark Mode" ft.Switch: its value
    appbar,                 \* page.appbar colours
    nav_container,          \* nav_container.bgcolor
    nav_buttons_row,        \* the three nav buttons' colours
    views,                  \* the views dictionary {0,1,2} -> view
    page_content_area,      \* page_content_area.content
    loaded,                 \* what load_data returned at the last startup
    launch,                 \* what the data file was at the last startup
    last_event,             \* the handler that ran last
    prev_event              \* the handler that ran before it

vars == <<pc, file, data_store, theme_mode, current_selected_index,
          chat_messages_list, new_message_field, switch, appbar,
          nav_container, nav_buttons_row, views, page_content_area,
          loaded, launch, last_event, prev_event>>

(***************************************************************************)
(* Bounds of the model.                                                    *)
(***************************************************************************)
\* messages typed by the user that one chat may hold before send is disabled
MaxUserMessages == 2
\* longest chat of a well-formed data file present before the first launch
MaxInitChat == 1

\* the texts the user may type into the message field
Texts == {"hello", "hi"}

(***************************************************************************)
(* Hardcoded colour definitions.                                           *)
(***************************************************************************)
COLOR_WHITE == "#FFFFFF"
COLOR_BLACK == "#000000"
COLOR_BLUE_GREY_600 == "#546E7A"
COLOR_BLUE_ACCENT_700 == "#2962FF"
COLOR_BLUE_GREY_900 == "#263238"
COLOR_BLUE_GREY_800 == "#37474F"
COLOR_BLUE_GREY_700 == "#455A64"
COLOR_BLUE_GREY_50 == "#ECEFF1"
COLOR_BLUE_100 == "#BBDEFB"
COLOR_BLUE_700 == "#1976D2"
COLOR_LIGHT_BLUE_200 == "#81D4FA"
COLOR_WHITE70 == "#B3FFFFFF"
COLOR_GREY_300 == "#E0E0E0"
COLOR_GREY_700 == "#616161"
\* the colour of a control whose colour was never set
NoColor == "None"

(***************************************************************************)
(* Theme resolver: pure functions of the dark-mode flag.                   *)
(***************************************************************************)
get_app_bar_colors(is_dark_mode) ==
    IF is_dark_mode
    THEN [bgcolor |-> COLOR_BLUE_GREY_900, content_color |-> COLOR_WHITE]
    ELSE [bgcolor |-> COLOR_BLUE_ACCENT_700, content_color |-> COLOR_WHITE]

get_general_text_color(is_dark_mode) ==
    IF is_dark_mode THEN COLOR_WHITE ELSE COLOR_BLACK

get_nav_bar_container_bgcolor(is_dark_mode) ==
    IF is_dark_mode THEN COLOR_BLUE_GREY_800 ELSE COLOR_BLUE_GREY_50

get_nav_button_colors(is_dark_mode, is_selected) ==
    IF is_selected
    THEN IF is_dark_mode
         THEN [bg |-> COLOR_BLUE_GREY_700, text |-> COLOR_LIGHT_BLUE_200]
         ELSE [bg |-> COLOR_BLUE_100, text |-> COLOR_BLUE_700]
    ELSE IF is_dark_mode
         THEN [bg |-> COLOR_BLUE_GREY_800, text |-> COLOR_WHITE70]
         ELSE [bg |-> COLOR_WHITE, text |-> COLOR_BLUE_GREY_600]

get_text_field_colors(is_dark_mode) ==
    IF is_dark_mode
    THEN [bgcolor |-> COLOR_GREY_700, text_color |-> COLOR_WHITE,
          hint_color |-> COLOR_WHITE70]
    ELSE [bgcolor |-> COLOR_GREY_300, text_color |-> COLOR_BLACK,
          hint_color |-> COLOR_BLUE_GREY_600]

(***************************************************************************)
(* The JSON text of the data file, as tokens.  P is punctuation, S a       *)
(* quoted string, B a true/false literal, X bytes that are not JSON.       *)
(***************************************************************************)
P(c) == [t |-> "p", v |-> c]
S(s) == [t |-> "s", v |-> s]
B(b) == [t |-> "b", v |-> IF b THEN "true" ELSE "false"]
X(s) == [t |-> "x", v |-> s]

\* json.dump of a list of strings
RECURSIVE DumpItems(_)
DumpItems(list) ==
    IF Len(list) = 0 THEN <<>>
    ELSE IF Len(list) = 1 THEN <<S(list[1])>>
    ELSE <<S(list[1]), P(",")>> \o DumpItems(Tail(list))

DumpList(list) == <<P("[")>> \o DumpItems(list) \o <<P("]")>>

\* the members of the settings dict (booleans), in key order
RECURSIVE DumpMembers(_, _)
DumpMembers(dict, keys) ==
    IF keys = <<>> THEN <<>>
    ELSE LET k == Head(keys)
             rest == DumpMembers(dict, Tail(keys))
         IN IF k \in DOMAIN dict
            THEN <<S(k), P(":"), B(dict[k])>>
                 \o (IF rest = <<>> THEN <<>> ELSE <<P(",")>> \o rest)
            ELSE rest

\* json.dump of the settings dict
DumpSettings(settings) ==
    <<P("{")>>
    \o DumpMembers(settings, <<"enable_notifications", "dark_mode">>)
    \o <<P("}")>>

\* json.dump(data_store, f): the whole document
json_dump(doc) ==
    <<P("{")>>
    \o (IF "settings" \in DOMAIN doc
        THEN <<S("settings"), P(":")>> \o DumpSettings(doc["settings"])
             \o (IF "chat_messages" \in DOMAIN doc THEN <<P(",")>> ELSE <<>>)
        ELSE <<>>)
    \o (IF "chat_messages" \in DOMAIN doc
        THEN <<S("chat_messages"), P(":")>> \o DumpList(doc["chat_messages"])
        ELSE <<>>)
    \o <<P("}")>>

\* the result of a failed parse (json.JSONDecodeError)
ParseFail == [ok |-> FALSE, val |-> <<>>, next |-> 0]

\* json.load: a recursive-descent parse of the value that starts at toks[i];
\* an object becomes a function on its keys, an array a sequence
RECURSIVE ParseValue(_, _), ParseElements(_, _, _), ParseMembers(_, _, _)
ParseValue(toks, i) ==
    IF i > Len(toks) THEN ParseFail
    ELSE LET tk == toks[i] IN
         IF tk.t = "s" THEN [ok |-> TRUE, val |-> tk.v, next |-> i + 1]
         ELSE IF tk.t = "b"
         THEN [ok |-> TRUE, val |-> (tk.v = "true"), next |-> i + 1]
         ELSE IF tk = P("[")
         THEN IF i + 1 <= Len(toks) /\ toks[i + 1] = P("]")
              THEN [ok |-> TRUE, val |-> <<>>, next |-> i + 2]
              ELSE ParseElements(toks, i + 1, <<>>)
         ELSE IF tk = P("{")
         THEN IF i + 1 <= Len(toks) /\ toks[i + 1] = P("}")
              THEN [ok |-> TRUE, val |-> <<>>, next |-> i + 2]
              ELSE ParseMembers(toks, i + 1, <<>>)
         ELSE ParseFail

\* the elements of an array after "[" or ",", up to and including "]"
ParseElements(toks, i, acc) ==
    LET e == ParseValue(toks, i) IN
    IF ~e.ok \/ e.next > Len(toks) THEN ParseFail
    ELSE IF toks[e.next] = P("]")
    THEN [ok |-> TRUE, val |-> Append(acc, e.val), next |-> e.next + 1]
    ELSE IF toks[e.next] = P(",")
    THEN ParseElements(toks, e.next + 1, Append(acc, e.val))
    ELSE ParseFail

\* the members of an object after "{" or ",", up to and including "}"
ParseMembers(toks, i, acc) ==
    IF i + 1 > Len(toks) \/ toks[i].t # "s" \/ toks[i + 1] # P(":")
    THEN ParseFail
    ELSE LET m == ParseValue(toks, i + 2) IN
         IF ~m.ok \/ m.next > Len(toks) THEN ParseFail
         ELSE LET obj == (toks[i].v :> m.val) @@ acc IN
              IF toks[m.next] = P("}")
              THEN [ok |-> TRUE, val |-> obj, next |-> m.next + 1]
              ELSE IF toks[m.next] = P(",")
              THEN ParseMembers(toks, m.next + 1, obj)
              ELSE ParseFail

\* json.load(f): one value and nothing after it, or JSONDecodeError
json_load(toks) ==
    LET r == ParseValue(toks, 1) IN
    IF r.ok /\ r.next = Len(toks) + 1 THEN r ELSE ParseFail

(***************************************************************************)
(* Data storage functions.                                                 *)
(***************************************************************************)
DefaultAppData ==
    [settings |-> [enable_notifications |-> FALSE, dark_mode |-> FALSE],
     chat_messages |-> <<>>]

\* load_data without the except clause: JSONDecodeError propagates
load_data_no_except(f) ==
    IF f.exists
    THEN LET r == json_load(f.content) IN
         IF r.ok
         THEN [raised |-> FALSE, value |-> r.val]
         ELSE [raised |-> TRUE, value |-> <<>>]
    ELSE [raised |-> FALSE, value |-> DefaultAppData]

\* load_data(): the file's document, or the defaults when the file is
\* missing or json.load raises JSONDecodeError
load_data(f) ==
    IF f.exists
    THEN LET r == json_load(f.content) IN
         IF r.ok
         THEN [raised |-> FALSE, value |-> r.val]
         ELSE [raised |-> FALSE, value |-> DefaultAppData]
    ELSE [raised |-> FALSE, value |-> DefaultAppData]

\* save_data(): overwrite the file with the dump of the document
save_data(doc) == [exists |-> TRUE, content |-> json_dump(doc)]

(***************************************************************************)
(* The application state as one record, so that a handler is an operator   *)
(* from the state before it to the state after it.                         *)
(***************************************************************************)
World ==
    [pc |-> pc, file |-> file, data_store |-> data_store,
     theme_mode |-> theme_mode,
     current_selected_index |-> current_selected_index,
     chat_messages_list |-> chat_messages_list,
     new_message_field |-> new_message_field, switch |-> switch,
     appbar |-> appbar, nav_container |-> nav_container,
     nav_buttons_row |-> nav_buttons_row, views |-> views,
     page_content_area |-> page_content_area]

\* the state when no process runs (or main raised): only the file is left
NoApp(f, p) ==
    [pc |-> p, file |-> f, data_store |-> <<>>, theme_mode |-> "None",
     current_selected_index |-> -1, chat_messages_list |-> <<>>,
     new_message_field |-> [value |-> "", bgcolor |-> NoColor,
                            text_color |-> NoColor, hint_color |-> NoColor],
     switch |-> [value |-> FALSE],
     appbar |-> [bgcolor |-> NoColor, title_color |-> NoColor,
                 leading_color |-> NoColor,
                 action_colors |-> <<NoColor, NoColor>>],
     nav_container |-> [bgcolor |-> NoColor],
     nav_buttons_row |-> <<>>, views |-> <<>>,
     page_content_area |-> [content |-> [name |-> "None"]]]

IsDark(w) == w.theme_mode = "DARK"

\* the 14 dummy messages main adds to an empty chat
DummyMessage(i) ==
    "Dummy Message " \o ToString(i)
    \o ": This is a test message to fill up the chat area."

NumDummy == 14

\* the seeding loop with range(1, 14)
DummyMessages_one_short == [i \in 1..(NumDummy - 1) |-> DummyMessage(i)]

DummyMessages == [i \in 1..NumDummy |-> DummyMessage(i)]

\* ft.Text(message, color=...)
TextControl(message, is_dark_mode) ==
    [text |-> message, color |-> get_general_text_color(is_dark_mode)]

(***************************************************************************)
(* Content views.                                                          *)
(***************************************************************************)
home_view(is_dark_mode) ==
    [name |-> "home",
     text_colors |-> [i \in 1..3 |-> get_general_text_color(is_dark_mode)]]

build_chat_view(is_dark_mode) ==
    [name |-> "chat",
     text_colors |-> [i \in 1..3 |-> get_general_text_color(is_dark_mode)],
     box_bgcolor |-> IF ~is_dark_mode THEN COLOR_GREY_300 ELSE COLOR_GREY_700,
     icon_color |-> IF ~is_dark_mode THEN COLOR_BLUE_ACCENT_700
                    ELSE COLOR_LIGHT_BLUE_200]

settings_view(is_dark_mode) ==
    [name |-> "settings",
     text_colors |-> [i \in 1..3 |-> get_general_text_color(is_dark_mode)]]

build_views(is_dark_mode) ==
    (0 :> home_view(is_dark_mode)) @@ (1 :> build_chat_view(is_dark_mode))
    @@ (2 :> settings_view(is_dark_mode))

(***************************************************************************)
(* Navigation.                                                             *)
(***************************************************************************)
\* update_content that leaves the displayed content alone
update_content_keeps_content(w, index) ==
    [w EXCEPT
       !.current_selected_index = index,
       !.nav_buttons_row =
           [i \in 0..2 |->
              LET button_colors == get_nav_button_colors(IsDark(w), i = index)
              IN [bgcolor |-> button_colors.bg,
                  emoji_color |-> button_colors.text,
                  label_color |-> button_colors.text]]]

\* update_content that recolours the selected button only
update_content_selected_only(w, index) ==
    [w EXCEPT
       !.current_selected_index = index,
       !.page_content_area = [content |-> w.views[index]],
       !.nav_buttons_row =
           [i \in 0..2 |->
              IF i = index
              THEN LET button_colors == get_nav_button_colors(IsDark(w), TRUE)
                   IN [bgcolor |-> button_colors.bg,
                       emoji_color |-> button_colors.text,
                       label_color |-> button_colors.text]
              ELSE w.nav_buttons_row[i]]]

\* update_content(index): select the view and recolour the three buttons
update_content(w, index) ==
    [w EXCEPT
       !.current_selected_index = index,
       !.page_content_area = [content |-> w.views[index]],
       !.nav_buttons_row =
           [i \in 0..2 |->
              LET button_colors == get_nav_button_colors(IsDark(w), i = index)
              IN [bgcolor |-> button_colors.bg,
                  emoji_color |-> button_colors.text,
                  label_color |-> button_colors.text]]]

(***************************************************************************)
(* Chat controller.                                                        *)
(***************************************************************************)
\* add_message that saves before it appends to the store
add_message_save_first(w, message) ==
    LET store == [w.data_store EXCEPT
                    !["chat_messages"] = Append(@, message)]
    IN [w EXCEPT
          !.chat_messages_list = Append(@, TextControl(message, IsDark(w))),
          !.data_store = store,
          !.file = save_data(w.data_store)]

\* add_message(message): append to the list view and the store, then save
add_message(w, message) ==
    LET store == [w.data_store EXCEPT
                    !["chat_messages"] = Append(@, message)]
    IN [w EXCEPT
          !.chat_messages_list = Append(@, TextControl(message, IsDark(w))),
          !.data_store = store,
          !.file = save_data(store)]

\* send_message without the test of the field's value
send_message_no_test(w) ==
    [add_message(w, w.new_message_field.value)
       EXCEPT !.new_message_field.value = ""]

\* send_message(e): nothing when the field is empty
send_message(w) ==
    IF w.new_message_field.value # ""
    THEN [add_message(w, w.new_message_field.value)
            EXCEPT !.new_message_field.value = ""]
    ELSE w

\* clear_chat that empties the list view only
clear_chat_view_only(w) ==
    [w EXCEPT
       !.chat_messages_list = <<>>,
       !.file = save_data(w.data_store)]

\* clear_chat(e)
clear_chat(w) ==
    LET store == [w.data_store EXCEPT !["chat_messages"] = <<>>]
    IN [w EXCEPT
          !.chat_messages_list = <<>>,
          !.data_store = store,
          !.file = save_data(store)]

(***************************************************************************)
(* Theme toggle.                                                           *)
(***************************************************************************)
\* the framework sets the switch's value before it calls on_change
flip_switch(w) == [w EXCEPT !.switch.value = ~@]

\* the theme change without the call of save_data
apply_dark_mode_no_save(w, is_dark) ==
    LET store == [w.data_store EXCEPT
                    !["settings"] = ("dark_mode" :> is_dark) @@ @]
    IN [w EXCEPT
          !.theme_mode = IF is_dark THEN "DARK" ELSE "LIGHT",
          !.data_store = store]

\* on_dark_mode_switch_change, lines 229-232: theme mode, setting, save
apply_dark_mode(w, is_dark) ==
    LET store == [w.data_store EXCEPT
                    !["settings"] = ("dark_mode" :> is_dark) @@ @]
    IN [w EXCEPT
          !.theme_mode = IF is_dark THEN "DARK" ELSE "LIGHT",
          !.data_store = store,
          !.file = save_data(store)]

\* the app bar recoloured only when the switch is turned on
update_app_bar_colors_dark_only(w, is_dark) ==
    IF is_dark
    THEN LET app_bar_colors == get_app_bar_colors(is_dark) IN
         [w EXCEPT
            !.appbar = [bgcolor |-> app_bar_colors.bgcolor,
                        title_color |-> app_bar_colors.content_color,
                        leading_color |-> app_bar_colors.content_color,
                        action_colors |->
                            [i \in 1..2 |-> app_bar_colors.content_color]]]
    ELSE w

\* lines 234-241: the colours of the app bar, its title, leading and actions
update_app_bar_colors(w, is_dark) ==
    LET app_bar_colors == get_app_bar_colors(is_dark) IN
    [w EXCEPT
       !.appbar = [bgcolor |-> app_bar_colors.bgcolor,
                   title_color |-> app_bar_colors.content_color,
                   leading_color |-> app_bar_colors.content_color,
                   action_colors |->
                       [i \in 1..2 |-> app_bar_colors.content_color]]]

\* lines 243-247: the colours of the message field
update_text_field_colors(w, is_dark) ==
    LET tf_colors == get_text_field_colors(is_dark) IN
    [w EXCEPT
       !.new_message_field =
           [value |-> @.value, bgcolor |-> tf_colors.bgcolor,
            text_color |-> tf_colors.text_color,
            hint_color |-> tf_colors.hint_color]]

\* the rebuild that gives the chat view a new, empty list
rebuild_views_new_list(w, is_dark) ==
    LET new_views == build_views(is_dark) IN
    [w EXCEPT
       !.views = new_views,
       !.chat_messages_list = <<>>,
       !.page_content_area =
           [content |-> new_views[w.current_selected_index]],
       !.nav_container =
           [bgcolor |-> get_nav_bar_container_bgcolor(is_dark)]]

\* lines 250-292: new view objects, message colours, the displayed content
\* and the navigation bar's background
rebuild_views(w, is_dark) ==
    LET new_views == build_views(is_dark) IN
    [w EXCEPT
       !.views = new_views,
       !.chat_messages_list =
           [i \in DOMAIN @ |->
              [@[i] EXCEPT !.color = get_general_text_color(is_dark)]],
       !.page_content_area =
           [content |-> new_views[w.current_selected_index]],
       !.nav_container =
           [bgcolor |-> get_nav_bar_container_bgcolor(is_dark)]]

\* the handler ending with update_content(0), as main does
on_dark_mode_switch_change_home(w) ==
    LET is_dark == w.switch.value
        w1 == apply_dark_mode(w, is_dark)
        w2 == update_app_bar_colors(w1, is_dark)
        w3 == update_text_field_colors(w2, is_dark)
        w4 == rebuild_views(w3, is_dark)
    IN update_content(w4, 0)

\* on_dark_mode_switch_change(e), e.control being the switch
on_dark_mode_switch_change(w) ==
    LET is_dark == w.switch.value
        w1 == apply_dark_mode(w, is_dark)
        w2 == update_app_bar_colors(w1, is_dark)
        w3 == update_text_field_colors(w2, is_dark)
        w4 == rebuild_views(w3, is_dark)
    IN update_content(w4, w.current_selected_index)

(***************************************************************************)
(* main(page): the whole startup, or the state in which it raised.         *)
(***************************************************************************)
main(f) ==
    LET store0 == load_data(f).value IN
    IF load_data(f).raised
    THEN NoApp(f, "crashed")                         \* line 70 raised
    ELSE IF "chat_messages" \notin DOMAIN store0
    THEN NoApp(f, "crashed")                         \* KeyError, line 73
    ELSE
    LET seed == store0["chat_messages"] = <<>>
        store == IF seed
                 THEN [store0 EXCEPT !["chat_messages"] = DummyMessages]
                 ELSE store0
        f1 == IF seed THEN save_data(store) ELSE f
    IN
    IF "settings" \notin DOMAIN store
       \/ "dark_mode" \notin DOMAIN store["settings"]
    THEN NoApp(f1, "crashed")                        \* KeyError, line 79
    ELSE
    LET is_dark == store["settings"]["dark_mode"]
        initial_tf_colors == get_text_field_colors(is_dark)
        initial_app_bar_colors == get_app_bar_colors(is_dark)
        w == [pc |-> "running", file |-> f1, data_store |-> store,
              theme_mode |-> IF is_dark THEN "DARK" ELSE "LIGHT",
              current_selected_index |-> -1,
              chat_messages_list |->
                  [i \in DOMAIN store["chat_messages"] |->
                     TextControl(store["chat_messages"][i], is_dark)],
              new_message_field |->
                  [value |-> "", bgcolor |-> initial_tf_colors.bgcolor,
                   text_color |-> initial_tf_colors.text_color,
                   hint_color |-> initial_tf_colors.hint_color],
              switch |-> [value |-> is_dark],
              appbar |-> [bgcolor |-> initial_app_bar_colors.bgcolor,
                          title_color |-> initial_app_bar_colors.content_color,
                          leading_color |->
                              initial_app_bar_colors.content_color,
                          action_colors |->
                              [i \in 1..2 |->
                                 initial_app_bar_colors.content_color]],
              nav_container |->
                  [bgcolor |-> get_nav_bar_container_bgcolor(is_dark)],
              nav_buttons_row |->
                  [i \in 0..2 |-> [bgcolor |-> NoColor,
                                   emoji_color |-> NoColor,
                                   label_color |-> NoColor]],
              views |-> build_views(is_dark),
              page_content_area |-> [content |-> build_views(is_dark)[0]]]
    IN update_content(w, 0)

(***************************************************************************)
(* The data files a launch may find.                                       *)
(***************************************************************************)
RECURSIVE SeqsUpTo(_, _)
SeqsUpTo(set, n) ==
    IF n = 0 THEN {<<>>}
    ELSE LET shorter == SeqsUpTo(set, n - 1) IN
         shorter \cup {Append(q, x) : q \in shorter, x \in set}

\* well-formed documents
InitDocs ==
    {[settings |-> [enable_notifications |-> n, dark_mode |-> d],
      chat_messages |-> c] :
        n \in BOOLEAN, d \in BOOLEAN, c \in SeqsUpTo(Texts, MaxInitChat)}

\* parsable JSON that is not an AppData document
BadShapeFiles ==
    {<<P("{"), P("}")>>,
     json_dump([settings |-> DefaultAppData.settings]),
     json_dump([chat_messages |-> <<>>]),
     json_dump([chat_messages |-> <<"hello">>]),
     json_dump([settings |-> [enable_notifications |-> FALSE],
                chat_messages |-> <<>>]),
     json_dump([settings |-> [dark_mode |-> TRUE],
                chat_messages |-> <<"hi">>])}

\* a save that a crash cut short: a strict prefix of a document's text
\* (the empty file included)
TruncatedFiles ==
    LET docs == InitDocs
                \cup {[DefaultAppData EXCEPT !.chat_messages = DummyMessages]}
    IN UNION {{SubSeq(json_dump(d), 1, n) : n \in 0..(Len(json_dump(d)) - 1)} :
                d \in docs}

\* text that is not JSON
GarbageFiles ==
    {<<X("not json")>>, json_dump(DefaultAppData) \o <<X("junk")>>}

InitFiles ==
    {[exists |-> FALSE, content |-> <<>>]}
    \cup {[exists |-> TRUE, content |-> c] :
            c \in {json_dump(d) : d \in InitDocs} \cup BadShapeFiles
                  \cup TruncatedFiles \cup GarbageFiles}

\* what a launch found in the data file
IsAppData(doc) ==
    /\ DOMAIN doc = {"settings", "chat_messages"}
    /\ DOMAIN doc["settings"] = {"enable_notifications", "dark_mode"}

Classify(f) ==
    IF ~f.exists THEN "missing"
    ELSE IF ~json_load(f.content).ok THEN "unparsable"
    ELSE IF ~IsAppData(json_load(f.content).val) THEN "badshape"
    ELSE "valid"

(***************************************************************************)
(* The state machine.                                                      *)
(***************************************************************************)
\* the next state is the world w
SetWorld(w) ==
    /\ pc' = w.pc
    /\ file' = w.file
    /\ data_store' = w.data_store
    /\ theme_mode' = w.theme_mode
    /\ current_selected_index' = w.current_selected_index
    /\ chat_messages_list' = w.chat_messages_list
    /\ new_message_field' = w.new_message_field
    /\ switch' = w.switch
    /\ appbar' = w.appbar
    /\ nav_container' = w.nav_container
    /\ nav_buttons_row' = w.nav_buttons_row
    /\ views' = w.views
    /\ page_content_area' = w.page_content_area

Event(name) ==
    /\ last_event' = name
    /\ prev_event' = last_event

\* the navigation buttons, by position: Home, Chat, Settings
ViewName == (0 :> "home") @@ (1 :> "chat") @@ (2 :> "settings")

Displayed(name) == pc = "running" /\ page_content_area.content.name = name

\* the messages of the chat that the user typed
UserMessages(chat) == {i \in DOMAIN chat : chat[i] \in Texts}

Init ==
    /\ file \in InitFiles
    /\ \E w \in {NoApp(file, "off")} :
         /\ pc = w.pc
         /\ data_store = w.data_store
         /\ theme_mode = w.theme_mode
         /\ current_selected_index = w.current_selected_index
         /\ chat_messages_list = w.chat_messages_list
         /\ new_message_field = w.new_message_field
         /\ switch = w.switch
         /\ appbar = w.appbar
         /\ nav_container = w.nav_container
         /\ nav_buttons_row = w.nav_buttons_row
         /\ views = w.views
         /\ page_content_area = w.page_content_area
    /\ loaded = [raised |-> FALSE, value |-> <<>>]
    /\ launch = "none"
    /\ last_event = "none"
    /\ prev_event = "none"

\* ft.app(target=main): the process starts and runs main
Startup ==
    /\ pc = "off"
    /\ SetWorld(main(file))
    /\ loaded' = load_data(file)
    /\ launch' = Classify(file)
    /\ Event("startup")

\* the window is closed (or the failed session is discarded)
Exit ==
    /\ pc \in {"running", "crashed"}
    /\ SetWorld(NoApp(file, "off"))
    /\ loaded' = [raised |-> FALSE, value |-> <<>>]
    /\ launch' = "none"
    /\ Event("exit")

\* the user edits the message field of the chat view
TypeText ==
    /\ Displayed("chat")
    /\ \E t \in Texts \cup {""} :
         /\ t # new_message_field.value
         /\ SetWorld([World EXCEPT !.new_message_field.value = t])
    /\ UNCHANGED <<loaded, launch>>
    /\ Event("type")

\* the send button of the chat view
SendMessage ==
    /\ Displayed("chat")
    /\ \/ new_message_field.value = ""
       \/ Cardinality(UserMessages(data_store["chat_messages"]))
            < MaxUserMessages
    /\ SetWorld(send_message(World))
    /\ UNCHANGED <<loaded, launch>>
    /\ Event("send")

\* the "Clear Chat" button of the chat view
ClearChat ==
    /\ Displayed("chat")
    /\ SetWorld(clear_chat(World))
    /\ UNCHANGED <<loaded, launch>>
    /\ Event("clear")

\* the "Dark Mode" switch of the settings view
DarkModeSwitchChange ==
    /\ Displayed("settings")
    /\ SetWorld(on_dark_mode_switch_change(flip_switch(World)))
    /\ UNCHANGED <<loaded, launch>>
    /\ Event("toggle")

\* one of the three buttons of the navigation row
NavButton ==
    /\ pc = "running"
    /\ \E index \in 0..2 :
         /\ SetWorld(update_content(World, index))
         /\ Event(ViewName[index])
    /\ UNCHANGED <<loaded, launch>>

\* "Go to Chat" of the home view
GoToChat ==
    /\ Displayed("home")
    /\ SetWorld(update_content(World, 1))
    /\ UNCHANGED <<loaded, launch>>
    /\ Event("go_to_chat")

\* "Go to Settings" of the chat view
GoToSettings ==
    /\ Displayed("chat")
    /\ SetWorld(update_content(World, 2))
    /\ UNCHANGED <<loaded, launch>>
    /\ Event("go_to_settings")

Next ==
    \/ Startup
    \/ Exit
    \/ TypeText
    \/ SendMessage
    \/ ClearChat
    \/ DarkModeSwitchChange
    \/ NavButton
    \/ GoToChat
    \/ GoToSettings

Spec == Init /\ [][Next]_vars

(***************************************************************************)
(* Properties.                                                             *)
(***************************************************************************)
\* the document stored in the data file, as load_data reads it back
Persisted(f) == load_data(f).value

\* C1: when the data file is missing at launch, and when it exists but is
\* not parsable JSON, load_data returns the default document (notifications
\* off, dark mode off, empty chat) and does not raise; both cases return
\* the same document.
C1_LoadDefaults ==
    launch \in {"missing", "unparsable"} =>
        /\ ~loaded.raised
        /\ loaded.value = DefaultAppData
        /\ loaded.value["settings"]["enable_notifications"] = FALSE
        /\ loaded.value["settings"]["dark_mode"] = FALSE
        /\ loaded.value["chat_messages"] = <<>>
        /\ loaded = load_data([exists |-> FALSE, content |-> <<>>])

C1_Witness ==
    /\ last_event = "startup"
    /\ launch = "unparsable"
    /\ file.exists
    /\ loaded.value = DefaultAppData

\* C2: a send with a non-empty text leaves chat_messages equal to the chat
\* before it followed by the text, and a reload of the data file returns
\* that same sequence.
C2_SendAppends ==
    [][(last_event' = "send" /\ new_message_field.value # "") =>
          /\ data_store'["chat_messages"]
               = Append(data_store["chat_messages"], new_message_field.value)
          /\ ~load_data(file').raised
          /\ Persisted(file')["chat_messages"] = data_store'["chat_messages"]
      ]_vars

C2_Witness ==
    /\ last_event = "send"
    /\ prev_event = "type"
    /\ data_store["chat_messages"] = <<"hello">>
    /\ Persisted(file)["chat_messages"] = <<"hello">>

\* C3: send_message with an empty message field changes nothing: not the
\* chat_messages, the displayed list, the data file, the dark-mode setting
\* (stored and applied) or the navigation index.
C3_EmptySendNoOp ==
    [][(last_event' = "send" /\ new_message_field.value = "") =>
          UNCHANGED <<data_store, chat_messages_list, file, theme_mode,
                      switch, current_selected_index>>
      ]_vars

C3_Witness ==
    /\ last_event = "send"
    /\ prev_event = "send"
    /\ Len(data_store["chat_messages"]) > 0

\* C4: after clear_chat the chat_messages of the store and the displayed
\* list are empty, the data file holds "chat_messages": [] and the settings
\* the file held before.
C4_ClearEmpties ==
    [][last_event' = "clear" =>
          /\ data_store'["chat_messages"] = <<>>
          /\ chat_messages_list' = <<>>
          /\ file'.exists
          /\ json_load(file'.content).ok
          /\ Persisted(file')["chat_messages"] = <<>>
          /\ Persisted(file')["settings"] = Persisted(file)["settings"]
      ]_vars

C4_Witness ==
    /\ last_event = "clear"
    /\ prev_event = "send"
    /\ data_store["chat_messages"] = <<>>
    /\ chat_messages_list = <<>>
    /\ Persisted(file)["chat_messages"] = <<>>

\* C5: whenever the application is back at the event loop, the data file
\* exists, parses, and its document equals data_store.
C5_WriteThrough ==
    pc = "running" =>
        /\ file.exists
        /\ json_load(file.content).ok
        /\ json_load(file.content).val = data_store

C5_Witness ==
    /\ pc = "running"
    /\ last_event = "toggle"
    /\ data_store["settings"]["dark_mode"] # loaded.value["settings"]["dark_mode"]
    /\ json_load(file.content).val = data_store

\* what the dark-mode flag decides, with what a toggle must leave alone
ThemeState(w) ==
    [persisted_dark_mode |-> Persisted(w.file)["settings"]["dark_mode"],
     stored_dark_mode |-> w.data_store["settings"]["dark_mode"],
     theme_mode |-> w.theme_mode,
     appbar |-> w.appbar,
     view_colors |-> w.views,
     displayed |-> w.page_content_area,
     message_colors |-> [i \in DOMAIN w.chat_messages_list |->
                           w.chat_messages_list[i].color],
     nav_container |-> w.nav_container,
     nav_buttons_row |-> w.nav_buttons_row,
     text_field_colors |-> [bgcolor |-> w.new_message_field.bgcolor,
                            text_color |-> w.new_message_field.text_color,
                            hint_color |-> w.new_message_field.hint_color],
     chat_messages |-> w.data_store["chat_messages"],
     current_selected_index |-> w.current_selected_index]

\* C6: two consecutive changes of the dark-mode switch, to the opposite
\* value and back, restore the persisted dark_mode flag, the theme mode
\* and every colour derived from the flag, and leave chat_messages and the
\* navigation index as they were.
C6_ToggleTwice ==
    pc = "running" =>
        LET once == on_dark_mode_switch_change(flip_switch(World))
            twice == on_dark_mode_switch_change(flip_switch(once))
        IN /\ once.theme_mode # theme_mode
           /\ ThemeState(once).persisted_dark_mode
                # ThemeState(World).persisted_dark_mode
           /\ ThemeState(once).chat_messages = data_store["chat_messages"]
           /\ once.current_selected_index = current_selected_index
           /\ ThemeState(twice) = ThemeState(World)

C6_Witness ==
    /\ pc = "running"
    /\ last_event = "toggle"
    /\ prev_event = "toggle"
    /\ theme_mode = "LIGHT"
    /\ appbar.bgcolor = COLOR_BLUE_ACCENT_700
    /\ Len(chat_messages_list) > 0

NavEvents == {"home", "chat", "settings", "go_to_chat", "go_to_settings"}

\* C7: the index is 0 (Home) after startup; the button of view i makes the
\* index i, from any view; toggles keep the index; and the displayed
\* content always is the current view object of the index, so that
\* Home->Chat->Settings->Home ends at Home with Home's view displayed.
C7_Navigation ==
    /\ [](pc = "running" =>
            /\ page_content_area.content = views[current_selected_index]
            /\ page_content_area.content.name
                 = ViewName[current_selected_index]
            /\ last_event = "startup" => current_selected_index = 0
            /\ \A i \in 0..2 :
                 last_event = ViewName[i] => current_selected_index = i
            /\ last_event = "go_to_chat" => current_selected_index = 1
            /\ last_event = "go_to_settings" => current_selected_index = 2
            /\ LET w == update_content(
                          update_content(update_content(World, 1), 2), 0)
               IN /\ w.current_selected_index = 0
                  /\ w.page_content_area.content = views[0]
                  /\ w.page_content_area.content.name = "home")
    /\ [][last_event' = "toggle" =>
            current_selected_index' = current_selected_index]_vars

C7_Witness ==
    /\ pc = "running"
    /\ last_event = "home"
    /\ prev_event = "settings"
    /\ theme_mode # (IF loaded.value["settings"]["dark_mode"]
                     THEN "DARK" ELSE "LIGHT")
    /\ current_selected_index = 0
    /\ page_content_area.content = views[0]

\* C8: whatever the data file holds at launch (nothing, an empty or cut
\* text, text that is not JSON, or JSON without the AppData shape), startup
\* goes on with the default data, raises nothing and shows the Home view.
C8_StartupNeverFatal ==
    (last_event = "startup"
     /\ launch \in {"missing", "unparsable", "badshape"}) =>
        /\ ~loaded.raised
        /\ pc = "running"
        /\ data_store["settings"] = DefaultAppData.settings
        /\ current_selected_index = 0
        /\ page_content_area.content.name = "home"

\* C9: the navigation index of a running application is in {0,1,2}; only
\* the navigation handlers change it (send, clear and the toggle keep it);
\* navigation changes neither data_store nor the data file; and a startup
\* ends at index 0 whatever the index was before the exit.
C9_NavigationState ==
    /\ [](pc = "running" => current_selected_index \in 0..2)
    /\ [][(pc = "running" /\ pc' = "running"
           /\ current_selected_index' # current_selected_index)
             => last_event' \in NavEvents]_vars
    /\ [][last_event' \in {"send", "clear", "toggle", "type"} =>
            current_selected_index' = current_selected_index]_vars
    /\ [][last_event' \in NavEvents => UNCHANGED <<data_store, file>>]_vars
    /\ [][(last_event' = "startup" /\ pc' = "running") =>
            current_selected_index' = 0]_vars

C9_Witness ==
    /\ pc = "running"
    /\ last_event = "startup"
    /\ prev_event = "exit"
    /\ launch = "valid"
    /\ current_selected_index = 0

\* C10: in a running application every navigation button has the colours
\* get_nav_button_colors gives for the current theme and for whether its
\* position is the selected index: the selected colours on that button and
\* the unselected colours on the other two.
C10_NavButtonColors ==
    pc = "running" =>
        \A i \in 0..2 :
            LET c == get_nav_button_colors(theme_mode = "DARK",
                                           i = current_selected_index)
                selected == get_nav_button_colors(theme_mode = "DARK", TRUE)
            IN /\ nav_buttons_row[i].bgcolor = c.bg
               /\ nav_buttons_row[i].emoji_color = c.text
               /\ nav_buttons_row[i].label_color = c.text
               /\ (nav_buttons_row[i].bgcolor = selected.bg)
                    <=> (i = current_selected_index)

C10_Witness ==
    /\ pc = "running"
    /\ last_event = "toggle"
    /\ theme_mode = "DARK"
    /\ current_selected_index = 2
    /\ nav_buttons_row[2].bgcolor = COLOR_BLUE_GREY_700
    /\ nav_buttons_row[0].bgcolor = COLOR_BLUE_GREY_800

\* the texts the chat list view shows, in order
DisplayedTexts(list) == [i \in DOMAIN list |-> list[i].text]

\* C11: in every state of a running application the texts of the chat
\* list view are the chat_messages of data_store, same length and order,
\* also after the views were rebuilt by a change of theme.
C11_ListMatchesStore ==
    pc = "running" =>
        /\ Len(chat_messages_list) = Len(data_store["chat_messages"])
        /\ DisplayedTexts(chat_messages_list) = data_store["chat_messages"]

C11_Witness ==
    /\ pc = "running"
    /\ last_event = "toggle"
    /\ theme_mode = "DARK"
    /\ \E i \in DOMAIN chat_messages_list : chat_messages_list[i].text = "hi"
    /\ DisplayedTexts(chat_messages_list) = data_store["chat_messages"]
    /\ \A i \in DOMAIN chat_messages_list :
         chat_messages_list[i].color = COLOR_WHITE

\* C12: a startup that loads an empty chat_messages (no file, an
\* unparsable file, or a file saved after a clear) adds exactly the 14
\* dummy messages, numbered 1 to 14 in order, and saves them; a startup that
\* loads a non-empty chat adds nothing and leaves the file as it was.  So
\* the chat is never empty right after a startup.
C12_SeedOnEmpty ==
    /\ [][(last_event' = "startup"
           /\ "chat_messages" \in DOMAIN loaded'.value) =>
            IF loaded'.value["chat_messages"] = <<>>
            THEN /\ file'.exists
                 /\ Len(Persisted(file')["chat_messages"]) = 14
                 /\ \A i \in 1..14 :
                      Persisted(file')["chat_messages"][i] = DummyMessage(i)
                 /\ pc' = "running" =>
                      /\ Len(data_store'["chat_messages"]) = 14
                      /\ \A i \in 1..14 :
                           data_store'["chat_messages"][i] = DummyMessage(i)
            ELSE /\ file' = file
                 /\ pc' = "running" =>
                      data_store'["chat_messages"]
                        = loaded'.value["chat_messages"]
         ]_vars
    /\ [][(last_event' = "startup"
           /\ launch' \in {"missing", "unparsable"}) =>
            /\ pc' = "running"
            /\ loaded'.value["chat_messages"] = <<>>]_vars
    /\ []((pc = "running" /\ last_event = "startup") =>
            data_store["chat_messages"] # <<>>)

C12_Witness ==
    /\ pc = "running"
    /\ last_event = "startup"
    /\ prev_event = "exit"
    /\ launch = "valid"
    /\ loaded.value["chat_messages"] = <<>>
    /\ Len(data_store["chat_messages"]) = 14
    /\ Persisted(file)["chat_messages"] = data_store["chat_messages"]

====
